---- MODULE Spec2Model ----
(***************************************************************************)
(* Model of the search / classify / optimise loop of main.py (command      *)
(* `run`) together with load_project_config and human_review.              *)
(*                                                                         *)
(* The external collaborators (database search, LLM classify, LLM          *)
(* optimize_query, the human at the prompt) are nondeterministic: every    *)
(* result they can hand back to `run` is drawn with \E from a small set.   *)
(***************************************************************************)
EXTENDS Integers, Sequences, FiniteSets, TLC

----------------------------------------------------------------------------
(* Bounds of the model *)

\* largest value of search.max_iterations tried
MaxIters == 3

\* search.max_results_per_iter: the `limit` handed to db.search
MaxResults == 2

----------------------------------------------------------------------------
(* Values *)

\* Record (models.py): one paper with an abstract, one whose abstract is None
RecordPool ==
    { [id |-> "a", has_abstract |-> TRUE],
      [id |-> "n", has_abstract |-> FALSE] }

\* query strings: the configured initial query and what the LLM may suggest
Queries == {"q0", "q1"}

\* precision_threshold as a fraction <<numerator, denominator>>
Thresholds == { <<0, 1>>, <<1, 2>>, <<1, 1>> }

\* keys `run` reads from the merged configuration
AllFields ==
    {"name", "description", "initial_query", "max_iterations",
     "precision_threshold", "max_results_per_iter", "criteria"}

\* Classification.relevance, or the call raising
JudgeOutcomes == {"relevant", "irrelevant", "uncertain", "error"}

\* choices of Prompt.ask in human_review
HumanChoices == {"relevant", "irrelevant", "skip"}

NoCall == [iteration |-> 0, query |-> "none", fps |-> <<>>, new_query |-> "none"]

\* all sequences over S of length at most n
RECURSIVE SeqsUpTo(_, _)
SeqsUpTo(S, n) ==
    IF n = 0 THEN { <<>> }
    ELSE LET shorter == SeqsUpTo(S, n - 1)
         IN  shorter \cup { Append(s, x) : s \in shorter, x \in S }

----------------------------------------------------------------------------
VARIABLES
    pc,                 \* position in run
    exit,               \* how run ended
    config,             \* project file found?, merged keys, values
    max_iters,          \* run: max_iters
    precision_target,   \* run: precision_target
    current_query,      \* run: current_query
    iteration,          \* run: for-loop variable
    records,            \* run: records of this iteration
    idx,                \* position of the inner for-loop in records
    relevant_count,     \* run: relevant_count
    irrelevant_records, \* run: irrelevant_records
    log,                \* what happened to each record of this iteration
    searches,           \* number of db.search calls made
    searchedQuery,      \* query argument of the latest db.search call
    optCall,            \* arguments and result of the latest optimize_query
    optCount            \* number of llm.optimize_query calls made

vars == << pc, exit, config, max_iters, precision_target, current_query,
           iteration, records, idx, relevant_count, irrelevant_records,
           log, searches, searchedQuery, optCall, optCount >>

----------------------------------------------------------------------------
(* Pure parts of run *)

\* human_review: record.abstract[:200] raises TypeError on None, before
\* Prompt.ask is reached
HumanReview(record, answer) ==
    IF record.has_abstract
    THEN [prompted |-> TRUE,  decision |-> answer]
    ELSE [prompted |-> FALSE, decision |-> "TypeError"]

\* lines 76-90: the body of the inner loop for one record.
\* judge = "not_called": config['criteria'] raised KeyError inside the try
Decide(record, judge, answer) ==
    IF judge \in {"error", "not_called"}
    THEN [rec |-> record, judge |-> judge, escalated |-> FALSE,
          prompted |-> FALSE, final |-> "none"]
    ELSE IF judge = "uncertain"
    THEN LET h == HumanReview(record, answer)
         IN  [rec |-> record, judge |-> judge, escalated |-> TRUE,
              prompted |-> h.prompted,
              final |-> IF h.prompted THEN h.decision ELSE "none"]
    ELSE [rec |-> record, judge |-> judge, escalated |-> FALSE,
          prompted |-> FALSE, final |-> judge]

\* lines 83-84
TallyRelevant(count, decision) ==
    IF decision = "relevant" THEN count + 1 ELSE count

\* lines 86-87, with `else` in place of `elif decision == "irrelevant"`
TallyIrrelevantElse(irr, record, decision) ==
    IF decision # "relevant" THEN Append(irr, record) ELSE irr

\* lines 86-87
TallyIrrelevant(irr, record, decision) ==
    IF decision = "irrelevant" THEN Append(irr, record) ELSE irr

\* line 97, with > in place of >=
PrecisionReachedStrict(count, total, t) ==
    IF total > 0 THEN count * t[2] > t[1] * total
                 ELSE 0 > t[1]

\* lines 93-97: precision = relevant_count / total if total > 0 else 0,
\* compared with precision_target = t[1] / t[2]
PrecisionReached(count, total, t) ==
    IF total > 0 THEN count * t[2] >= t[1] * total
                 ELSE 0 >= t[1]

\* line 101, as written with the budget test lost
ShouldOptimizeNoBudget(irr, it, maxIt) ==
    irr # <<>>

\* line 101, as written with the false-positive test lost
ShouldOptimizeNoSignal(irr, it, maxIt) ==
    it < maxIt

\* line 101
ShouldOptimize(irr, it, maxIt) ==
    irr # <<>> /\ it < maxIt

\* line 60, running one iteration too many
InRangeOffByOne(it, maxIt) ==
    1 <= it /\ it <= maxIt + 1

\* line 60: iteration in range(1, max_iters + 1)
InRange(it, maxIt) ==
    1 <= it /\ it <= maxIt

\* line 66, testing `records is None`, which no adapter returns
NoRecordsIsNone(found) ==
    FALSE

\* line 66: not records
NoRecords(found) ==
    found = <<>>

\* line 70, with the counter kept from the previous iteration
FreshCountCarried(count) ==
    count

\* line 70: relevant_count = 0
FreshCount(count) ==
    0

\* line 71, with the list kept from the previous iteration
FreshIrrelevantCarried(irr) ==
    irr

\* line 71: irrelevant_records = []
FreshIrrelevant(irr) ==
    <<>>

----------------------------------------------------------------------------
Init ==
    /\ pc = "load"
    /\ exit = "running"
    /\ config \in [ found : BOOLEAN,
                    present : {AllFields} \cup {AllFields \ {f} : f \in AllFields},
                    max_iterations : 0..MaxIters,
                    precision_threshold : Thresholds ]
    /\ max_iters = 0
    /\ precision_target = <<0, 1>>
    /\ current_query = "none"
    /\ iteration = 0
    /\ records = <<>>
    /\ idx = 0
    /\ relevant_count = 0
    /\ irrelevant_records = <<>>
    /\ log = <<>>
    /\ searches = 0
    /\ searchedQuery = "none"
    /\ optCall = NoCall
    /\ optCount = 0

Stop(how) ==
    /\ pc' = "done"
    /\ exit' = how

\* lines 39-43: load_project_config; FileNotFoundError -> typer.Exit(1)
LoadConfig ==
    /\ pc = "load"
    /\ IF config.found
       THEN pc' = "setup" /\ exit' = exit
       ELSE Stop("exit_1")
    /\ UNCHANGED << config, max_iters, precision_target, current_query,
                    iteration, records, idx, relevant_count,
                    irrelevant_records, log, searches, searchedQuery,
                    optCall, optCount >>

\* lines 45-60: read the configuration, enter the for loop
Setup ==
    /\ pc = "setup"
    /\ IF {"name", "description", "initial_query", "max_iterations",
           "precision_threshold"} \subseteq config.present
       THEN /\ current_query' = "q0"
            /\ max_iters' = config.max_iterations
            /\ precision_target' = config.precision_threshold
            /\ IF InRange(1, config.max_iterations)
               THEN /\ iteration' = 1
                    /\ pc' = "search"
                    /\ exit' = exit
               ELSE /\ iteration' = iteration
                    /\ Stop("range_exhausted")
       ELSE /\ Stop("key_error")
            /\ UNCHANGED << current_query, max_iters, precision_target,
                            iteration >>
    /\ UNCHANGED << config, records, idx, relevant_count,
                    irrelevant_records, log, searches, searchedQuery,
                    optCall, optCount >>

\* lines 61-71: db.search and the empty-result break
Search ==
    /\ pc = "search"
    /\ IF "max_results_per_iter" \in config.present
       THEN \E found \in SeqsUpTo(RecordPool, MaxResults) :
              /\ searches' = searches + 1
              /\ searchedQuery' = current_query
              /\ records' = found
              /\ log' = <<>>
              /\ IF NoRecords(found)
                 THEN /\ Stop("no_records")
                      /\ UNCHANGED << relevant_count, irrelevant_records, idx >>
                 ELSE /\ relevant_count' = FreshCount(relevant_count)
                      /\ irrelevant_records' = FreshIrrelevant(irrelevant_records)
                      /\ idx' = 1
                      /\ pc' = IF found = <<>> THEN "assess" ELSE "classify"
                      /\ exit' = exit
       ELSE /\ Stop("key_error")
            /\ UNCHANGED << searches, searchedQuery, records, log,
                            relevant_count, irrelevant_records, idx >>
    /\ UNCHANGED << config, max_iters, precision_target, current_query,
                    iteration, optCall, optCount >>

\* lines 75-90: one pass of the inner loop
ClassifyRecord ==
    /\ pc = "classify"
    /\ idx <= Len(records)
    /\ \E judge \in JudgeOutcomes \cup {"not_called"}, answer \in HumanChoices :
         /\ judge = "not_called" <=> "criteria" \notin config.present
         /\ LET record == records[idx]
                entry  == Decide(record, judge, answer)
            IN  /\ relevant_count' = TallyRelevant(relevant_count, entry.final)
                /\ irrelevant_records' =
                       TallyIrrelevant(irrelevant_records, record, entry.final)
                /\ log' = Append(log, entry)
    /\ idx' = idx + 1
    /\ pc' = IF idx = Len(records) THEN "assess" ELSE "classify"
    /\ UNCHANGED << exit, config, max_iters, precision_target, current_query,
                    iteration, records, searches, searchedQuery, optCall,
                    optCount >>

\* lines 93-108: precision, the stop decision, optimize_query
Assess ==
    /\ pc = "assess"
    /\ IF PrecisionReached(relevant_count, Len(records), precision_target)
       THEN /\ Stop("target_reached")
            /\ UNCHANGED << current_query, iteration, optCall, optCount >>
       ELSE IF ShouldOptimize(irrelevant_records, iteration, max_iters)
       THEN /\ optCount' = optCount + 1
            /\ \/ \E new_query \in Queries :
                    /\ optCall' = [iteration |-> iteration,
                                   query |-> current_query,
                                   fps |-> irrelevant_records,
                                   new_query |-> new_query]
                    /\ current_query' = new_query
                    /\ IF InRange(iteration + 1, max_iters)
                       THEN /\ iteration' = iteration + 1
                            /\ pc' = "search"
                            /\ exit' = exit
                       ELSE /\ iteration' = iteration
                            /\ Stop("range_exhausted")
               \/ /\ optCall' = [iteration |-> iteration,
                                 query |-> current_query,
                                 fps |-> irrelevant_records,
                                 new_query |-> "none"]
                  /\ Stop("optimize_error")
                  /\ UNCHANGED << current_query, iteration >>
       ELSE /\ Stop("else_break")
            /\ UNCHANGED << current_query, iteration, optCall, optCount >>
    /\ UNCHANGED << config, max_iters, precision_target, records, idx,
                    relevant_count, irrelevant_records, log, searches,
                    searchedQuery >>

Next ==
    \/ LoadConfig
    \/ Setup
    \/ Search
    \/ ClassifyRecord
    \/ Assess

Spec == Init /\ [][Next]_vars

\* run is one sequential command: whenever a step is possible it is taken
FairSpec == Spec /\ WF_vars(Next)

----------------------------------------------------------------------------
(* Names the specification gives to the ways run stops.  main.py has no     *)
(* reason value: it prints "No records found." before the break of line 68, *)
(* "Target precision reached!" before the break of line 99, and nothing     *)
(* before the break of line 108, which the specification names              *)
(* STOPPED_NO_SIGNAL when there is no false positive and MAX_ITERATIONS     *)
(* when the iteration budget is used up.                                    *)
StopReasons ==
    IF pc # "done" THEN {}
    ELSE IF exit = "no_records" THEN {"NO_RESULTS"}
    ELSE IF exit = "target_reached" THEN {"TARGET_REACHED"}
    ELSE IF exit = "else_break"
    THEN (IF irrelevant_records = <<>> THEN {"STOPPED_NO_SIGNAL"} ELSE {})
         \cup (IF iteration = max_iters THEN {"MAX_ITERATIONS"} ELSE {})
    ELSE {}

----------------------------------------------------------------------------
(* Vocabulary of the properties, read off the per-record log *)

\* number of records of this iteration whose final decision is d
CountFinal(d) ==
    Cardinality({ i \in 1..Len(log) : log[i].final = d })

\* the records of this iteration whose final decision is "irrelevant", in order
LoggedIrrelevant ==
    LET keep == SelectSeq(log, LAMBDA e : e.final = "irrelevant")
    IN  [ i \in 1..Len(keep) |-> keep[i].rec ]

\* relevant_count / len(records) >= precision_target, as a comparison of fractions
AtOrAboveTarget ==
    relevant_count * precision_target[2] >= precision_target[1] * Len(records)

InLoop == pc \in {"search", "classify", "assess"}

----------------------------------------------------------------------------
(* C1: run makes at most max_iterations iterations, that is at most         *)
(* max_iterations calls of db.search, and then terminates.                  *)
C1_BoundedIterations ==
    /\ [](searches <= config.max_iterations)
    /\ [](iteration <= config.max_iterations)
    /\ <>(pc = "done")

C1_Witness ==
    /\ pc = "done"
    /\ searches = config.max_iterations
    /\ searches >= 3

(* C2: when the precision of iteration k is at or above the threshold, run  *)
(* stops in iteration k by the target-reached break (TARGET_REACHED) and    *)
(* makes no optimize_query call in it, whatever the false positives and k.  *)
C2_TargetReached ==
    [][ (pc = "assess" /\ AtOrAboveTarget)
        => /\ pc' = "done"
           /\ exit' = "target_reached"
           /\ StopReasons' = {"TARGET_REACHED"}
           /\ iteration' = iteration
           /\ optCount' = optCount
           /\ optCall' = optCall
           /\ current_query' = current_query ]_vars

C2_Witness ==
    /\ pc = "done"
    /\ exit = "target_reached"
    /\ iteration >= 2
    /\ irrelevant_records # <<>>
    /\ relevant_count * precision_target[2] = precision_target[1] * Len(records)
    /\ precision_target[1] > 0

(* C3: when db.search returns no record in iteration k (k = 1 or later),    *)
(* run stops in iteration k by the no-records break (NO_RESULTS): no        *)
(* classify, no escalation, no optimize_query in iteration k, no further    *)
(* search.                                                                  *)
C3_NoResults ==
    /\ [][ (pc = "search" /\ searches' = searches + 1 /\ records' = <<>>)
           => /\ pc' = "done"
              /\ exit' = "no_records"
              /\ StopReasons' = {"NO_RESULTS"}
              /\ iteration' = iteration
              /\ log' = <<>>
              /\ optCount' = optCount ]_vars
    /\ [](exit = "no_records"
           => /\ pc = "done"
              /\ records = <<>>
              /\ log = <<>>
              /\ searches = iteration
              /\ optCount = iteration - 1)

C3_Witness ==
    /\ pc = "done"
    /\ exit = "no_records"
    /\ iteration >= 2

(* C4: when precision is below the threshold and irrelevant_records is      *)
(* empty, run stops in that iteration by the break of line 108              *)
(* (STOPPED_NO_SIGNAL) without an optimize_query call, also when            *)
(* iteration < max_iters.                                                   *)
C4_NoSignal ==
    [][ (pc = "assess" /\ ~AtOrAboveTarget /\ irrelevant_records = <<>>)
        => /\ pc' = "done"
           /\ exit' = "else_break"
           /\ "STOPPED_NO_SIGNAL" \in StopReasons'
           /\ iteration' = iteration
           /\ optCount' = optCount
           /\ optCall' = optCall
           /\ current_query' = current_query ]_vars

C4_Witness ==
    /\ pc = "done"
    /\ exit = "else_break"
    /\ irrelevant_records = <<>>
    /\ iteration < max_iters
    /\ iteration >= 2
    /\ \E i \in 1..Len(log) : log[i].judge = "error"
    /\ \E i \in 1..Len(log) : log[i].final = "skip"

(* C5: in iteration k = max_iters with precision below the threshold, run   *)
(* stops after iteration k by the break of line 108 (MAX_ITERATIONS) with   *)
(* no optimize_query call, whether irrelevant_records is empty or not;      *)
(* optimize_query is only ever called in an iteration below max_iters.      *)
C5_MaxIterations ==
    /\ [][ (pc = "assess" /\ ~AtOrAboveTarget /\ iteration = max_iters)
           => /\ pc' = "done"
              /\ exit' = "else_break"
              /\ "MAX_ITERATIONS" \in StopReasons'
              /\ iteration' = iteration
              /\ optCount' = optCount
              /\ optCall' = optCall ]_vars
    /\ [](optCall # NoCall => optCall.iteration < max_iters)

C5_Witness ==
    /\ pc = "done"
    /\ exit = "else_break"
    /\ iteration = max_iters
    /\ irrelevant_records # <<>>
    /\ optCount = max_iters - 1
    /\ max_iters >= 2

(* C6: a record whose classify call raises is counted neither in            *)
(* relevant_count nor in irrelevant_records, and the iteration goes on:     *)
(* every later record is still classified and the precision decision is     *)
(* reached.                                                                 *)
C6_ClassifyErrorSkipped ==
    /\ [][ (pc = "classify" /\ Len(log') = Len(log) + 1
              /\ log'[Len(log')].judge = "error")
           => /\ relevant_count' = relevant_count
              /\ irrelevant_records' = irrelevant_records
              /\ exit' = "running"
              /\ idx' = idx + 1
              /\ pc' = IF idx < Len(records) THEN "classify" ELSE "assess" ]_vars
    /\ [](pc \in {"classify", "assess"}
           => /\ relevant_count = CountFinal("relevant")
              /\ irrelevant_records = LoggedIrrelevant
              /\ \A i \in 1..Len(log) :
                    log[i].judge = "error" => log[i].final = "none")
    /\ [](pc = "assess"
           => /\ Len(log) = Len(records)
              /\ \A i \in 1..Len(log) : log[i].rec = records[i])

C6_Witness ==
    /\ pc = "assess"
    /\ Len(log) = 2
    /\ log[1].judge = "error"
    /\ log[2].judge = "irrelevant"
    /\ relevant_count = 0
    /\ Len(irrelevant_records) = 1

(* C7 (as claimed): every record the judge finds uncertain, one without an  *)
(* abstract included, is put before the human, whose answer is tallied in   *)
(* place of "uncertain"; records judged relevant or irrelevant are never    *)
(* escalated.                                                               *)
C7_EscalationDecides ==
    \A i \in 1..Len(log) :
        /\ log[i].judge = "uncertain"
             => /\ log[i].escalated
                /\ log[i].prompted
                /\ log[i].final \in HumanChoices
        /\ log[i].judge \in {"relevant", "irrelevant"}
             => /\ ~log[i].escalated
                /\ log[i].final = log[i].judge

(* C8: current_query changes at most once per iteration, after the          *)
(* classification and the precision test of the iteration, and only to the  *)
(* new_query of that iteration's one optimize_query call, which is given    *)
(* the iteration's query and exactly the iteration's irrelevant records;    *)
(* the next iteration searches with that new_query.                         *)
C8_QueryDerivation ==
    /\ [][ (InLoop /\ (current_query' # current_query
                        \/ iteration' # iteration
                        \/ optCount' # optCount))
           => /\ pc = "assess"
              /\ Len(log) = Len(records)
              /\ ~AtOrAboveTarget
              /\ optCount' = optCount + 1
              /\ optCall'.iteration = iteration
              /\ optCall'.query = current_query
              /\ optCall'.query = searchedQuery
              /\ optCall'.fps = LoggedIrrelevant
              /\ (pc' # "done"
                    => /\ iteration' = iteration + 1
                       /\ current_query' = optCall'.new_query) ]_vars
    /\ [](InLoop
           => /\ optCount = iteration - 1
              /\ (iteration > 1
                    => /\ optCall.iteration = iteration - 1
                       /\ current_query = optCall.new_query))
    /\ [](pc \in {"classify", "assess"} => searchedQuery = current_query)

C8_Witness ==
    /\ pc = "assess"
    /\ iteration = 3
    /\ optCall.iteration = 2
    /\ Len(optCall.fps) = 1
    /\ optCall.query = "q1"
    /\ optCall.new_query = "q0"
    /\ searchedQuery = "q0"
    /\ Len(irrelevant_records) = 2

(* C9 (as claimed): with the project file missing or a required key         *)
(* missing, run makes no search and no classification.                      *)
C9_NoRunOnBadConfig ==
    (searches > 0 \/ log # <<>>)
        => (config.found /\ config.present = AllFields)

(* C10: the precision compared with the threshold is relevant_count of this *)
(* iteration alone over the number of records fetched in this iteration,    *)
(* errored and skipped records included in the denominator.                 *)
C10_PrecisionPerIteration ==
    /\ [][ pc = "assess"
           => ( exit' = "target_reached"
                <=> CountFinal("relevant") * precision_target[2]
                      >= precision_target[1] * Len(log) ) ]_vars
    /\ [](pc = "assess" => Len(log) = Len(records) /\ Len(log) > 0)
    /\ [](pc = "classify" /\ idx = 1 => relevant_count = 0)

C10_Witness ==
    /\ pc = "done"
    /\ exit = "else_break"
    /\ iteration >= 2
    /\ precision_target = <<1, 1>>
    /\ relevant_count = 1
    /\ \E i \in 1..Len(log) : log[i].final = "skip"

====
